---- MODULE Spec2Model ----
(***************************************************************************)
(* Transaction processing core of the top-up simulator: the handlers       *)
(* walletDeposit (server/src/handlers/wallet_deposit.ts) and processTopUp  *)
(* (server/src/handlers/process_topup.ts) running as concurrent            *)
(* invocations against the users, service_products and transactions        *)
(* tables.  Every database statement of a handler is one atomic step; the  *)
(* code between two awaits is local to the invocation and is folded into   *)
(* the statement that follows it.                                          *)
(*                                                                         *)
(* Money is counted in thousandths of a rupiah, so that the numeric(10,2)  *)
(* columns (multiples of 10 units) and the JavaScript numbers the handlers *)
(* compute with share one integer representation; ToNumeric is the         *)
(* rounding the store applies when a number is written to such a column.   *)
(***************************************************************************)
EXTENDS Integers, Sequences, FiniteSets, TLC

\* Number of handler invocations in a run.
NumInv == 2

Procs == 1..NumInv

\* ---------------------------------------------------------------- fixtures
\* Rows of the users table, and the ids a request may name (3 has no row).
UserIds == {1, 2}
UserIdInputs == {1, 2, 3}

\* Rows of the service_products table, and the ids a request may name.
ProductIds == {1, 2}
ProductIdInputs == {1, 2, 3}

\* wallet_balance '10000.00': a balance equal to the price of product 1.
EqualBalance == 10000 * 1000
\* wallet_balance '5000.00' of the low-balance user.
LowBalance == 5000 * 1000
\* wallet_balance '100000.00' of the test user.
TestBalance == 100000 * 1000
\* price '10000.00' of the active product.
ActivePrice == 10000 * 1000
\* price '20000.00' of the inactive product.
InactivePrice == 20000 * 1000

\* amount of a deposit request.
DepositAmounts == {5000 * 1000, 2500 * 1000}

PaymentMethods == {"wallet", "payment_gateway"}

NullId == 0
NULL == "null"

\* The clock counts milliseconds.  The fixture rows were written at
\* FixtureTime, before the first invocation, which begins at StartTime.
FixtureTime == 0
StartTime == 1

\* 'PAY_' + Date.now().toString()
PaymentReference(t) == "PAY_" \o ToString(t)

\* Variant of DigiflazzReference for a provider that gave no reference.
DigiflazzReferenceNone(t) == NULL

\* 'DGF_' + Date.now().toString()
DigiflazzReference(t) == "DGF_" \o ToString(t)

\* numeric(10,2): the store keeps two fractional digits, rounding half away
\* from zero.
ToNumeric(x) ==
    IF x >= 0 THEN ((x + 5) \div 10) * 10
    ELSE -((((-x) + 5) \div 10) * 10)

\* ------------------------------------------------------------------- state
VARIABLES
    users,           \* users table: id -> [wallet_balance]
    products,        \* service_products table: id -> [price, is_active]
    transactions,    \* transactions table: sequence of rows, id = index
    proc,            \* per invocation: position, input and local variables
    initialBalance,  \* wallet_balance of each user before any invocation
    now,             \* the clock: Date.now() of the server, now() of the store
    reader,          \* a caller of getUserTransactions and what it has read
    client           \* state of the client application (App component)

vars == <<users, products, transactions, proc, initialBalance,
          now, reader, client>>

\* What no statement of walletDeposit or processTopUp writes.
outside == <<now, reader, client>>

\* No page has been requested yet.
IdleReader ==
    [pc |-> "idle", user_id |-> 0, limit |-> 0, offset |-> 0,
     page |-> << >>, seen |-> << >>, known |-> {}]

\* wallet_balance: 50000 of mockUser.
MockBalance == 50000 * 1000

\* mockTransactions, newest first.
MockTransactions ==
    << [transaction_type |-> "topup", amount |-> 6000 * 1000,
        status |-> "completed", payment_method |-> "wallet"],
       [transaction_type |-> "wallet_deposit", amount |-> 100000 * 1000,
        status |-> "completed", payment_method |-> "payment_gateway"] >>

\* The App component after loadData: the user and the transactions it shows.
ClientInit ==
    [wallet_balance |-> MockBalance, transactions |-> MockTransactions]

IdleProc ==
    [pc |-> "idle", op |-> "none", user_id |-> 0, amount |-> 0,
     product_id |-> 0, payment_method |-> "none",
     userBalance |-> 0, productPrice |-> 0, txId |-> NullId,
     isApiSuccess |-> FALSE, currentBalance |-> 0,
     paymentSuccess |-> FALSE, digiflazzReference |-> NULL,
     result |-> "none", resultStatus |-> "none", error |-> "none"]

ProductsFixture ==
    [i \in ProductIds |->
        IF i = 1 THEN [price |-> ActivePrice, is_active |-> TRUE]
        ELSE [price |-> InactivePrice, is_active |-> FALSE]]

InitWith(b1, b2) ==
    /\ users = [u \in UserIds |->
                  [wallet_balance |-> IF u = 1 THEN b1 ELSE b2,
                   updated_at |-> FixtureTime]]
    /\ initialBalance = [u \in UserIds |-> IF u = 1 THEN b1 ELSE b2]
    /\ products = ProductsFixture
    /\ transactions = << >>
    /\ proc = [p \in Procs |-> IdleProc]
    /\ now = StartTime
    /\ reader = IdleReader
    /\ client = ClientInit

Init == InitWith(EqualBalance, LowBalance)

\* ----------------------------------------------------------------- helpers
\* Invocations are numbered in the order they begin.
MayBegin(p) ==
    /\ proc[p].pc = "idle"
    /\ IF p = 1 THEN TRUE ELSE proc[p - 1].pc # "idle"

InProgress(p) == proc[p].pc \notin {"idle", "done"}

Throw(p, st) ==
    proc' = [proc EXCEPT ![p] = [st EXCEPT !.pc = "done", !.result = "error"]]

\* throw new Error(message)
ThrowError(p, st, message) == Throw(p, [st EXCEPT !.error = message])

Return(p, st, status) ==
    proc' = [proc EXCEPT ![p] = [st EXCEPT !.pc = "done",
                                           !.result = "returned",
                                           !.resultStatus = status]]

\* db.insert(transactionsTable).values(row).returning(): serial id, amount
\* rounded to the column's scale.
InsertRow(row) ==
    Append(transactions,
           [row EXCEPT !.id = Len(transactions) + 1,
                       !.amount = ToNumeric(row.amount),
                       !.created_at = now,
                       !.updated_at = now])

\* Variant of UpdateBalance whose where clause matches no row.
UpdateBalanceNoMatch(u, newBalance) == users

\* Variant of UpdateBalance without the where clause.
UpdateBalanceEveryUser(u, newBalance) ==
    [v \in DOMAIN users |->
        [users[v] EXCEPT !.wallet_balance = ToNumeric(newBalance),
                         !.updated_at = now]]

\* db.update(usersTable).set({wallet_balance, updated_at: new Date()})
\*   .where(eq(id, u))
UpdateBalance(u, newBalance) ==
    [users EXCEPT ![u].wallet_balance = ToNumeric(newBalance),
                  ![u].updated_at = now]

\* Variant of SetStatus that also writes the amount column.
SetStatusClearAmount(id, status, reference) ==
    [transactions EXCEPT ![id].status = status,
                         ![id].digiflazz_reference = reference,
                         ![id].amount = 0,
                         ![id].updated_at = now]

\* Variant of SetStatus whose where clause matches no row.
SetStatusNoMatch(id, status, reference) == transactions

\* db.update(transactionsTable).set({status, ...}).where(eq(id, id)).returning()
SetStatus(id, status, reference) ==
    [transactions EXCEPT ![id].status = status,
                         ![id].digiflazz_reference = reference,
                         ![id].updated_at = now]

\* ------------------------------------------------------------ walletDeposit
\* The simulated payment step of walletDeposit.
paymentSuccess == TRUE

\* Variant of D_Request that goes on without looking at the select's result.
D_RequestUnchecked(p, u, a) ==
    /\ MayBegin(p)
    /\ proc' = [proc EXCEPT ![p] =
          [IdleProc EXCEPT !.op = "walletDeposit", !.user_id = u, !.amount = a,
                           !.payment_method = "payment_gateway",
                           !.pc = "d_insert",
                           !.userBalance = IF u \in DOMAIN users
                                           THEN users[u].wallet_balance
                                           ELSE 0]]
    /\ UNCHANGED <<users, products, transactions, initialBalance, outside>>

\* 1. Verify user exists: walletDeposit({user_id: u, amount: a}).
D_Request(p, u, a) ==
    /\ MayBegin(p)
    /\ LET st == [IdleProc EXCEPT !.op = "walletDeposit", !.user_id = u,
                                  !.amount = a,
                                  !.payment_method = "payment_gateway"]
       IN IF u \notin DOMAIN users
          THEN ThrowError(p, st, "User with id not found")
          ELSE proc' = [proc EXCEPT ![p] =
                   [st EXCEPT !.pc = "d_insert",
                              !.userBalance = users[u].wallet_balance]]
    /\ UNCHANGED <<users, products, transactions, initialBalance, outside>>

\* A deposit request with an amount the tests use.
D_SelectUser(p) ==
    \E u \in UserIdInputs, a \in DepositAmounts : D_Request(p, u, a)

\* 2. Create a transaction record with status 'pending'.
D_InsertTransaction(p) ==
    /\ proc[p].pc = "d_insert"
    /\ transactions' = InsertRow(
          [id |-> NullId, user_id |-> proc[p].user_id,
           transaction_type |-> "wallet_deposit", amount |-> proc[p].amount,
           status |-> "pending", payment_method |-> proc[p].payment_method,
           reference_id |-> PaymentReference(now), product_id |-> NullId,
           target_number |-> NULL, digiflazz_reference |-> NULL,
           created_at |-> NullId, updated_at |-> NullId])
    /\ proc' = [proc EXCEPT ![p].pc = "d_payment",
                            ![p].txId = Len(transactions) + 1]
    /\ UNCHANGED <<users, products, initialBalance, outside>>

\* Variant of D_Payment that credits the wallet before it looks at the
\* payment's outcome.
D_PaymentCreditFirst(p, ok) ==
    /\ proc[p].pc = "d_payment"
    /\ users' = UpdateBalance(proc[p].user_id,
                              proc[p].userBalance + proc[p].amount)
    /\ IF ok
       THEN /\ proc' = [proc EXCEPT ![p].pc = "d_complete",
                                    ![p].paymentSuccess = ok]
            /\ UNCHANGED transactions
       ELSE /\ transactions' = SetStatus(proc[p].txId, "failed",
                     transactions[proc[p].txId].digiflazz_reference)
            /\ Return(p, [proc[p] EXCEPT !.paymentSuccess = ok],
                      transactions'[proc[p].txId].status)
    /\ UNCHANGED <<products, initialBalance, outside>>

\* 3./4. The payment step answered ok: on success write the balance computed
\* from the user row read in step 1; otherwise set the row to 'failed' and
\* return it.
D_Payment(p, ok) ==
    /\ proc[p].pc = "d_payment"
    /\ IF ok
       THEN /\ users' = UpdateBalance(proc[p].user_id,
                                      proc[p].userBalance + proc[p].amount)
            /\ proc' = [proc EXCEPT ![p].pc = "d_complete",
                                    ![p].paymentSuccess = ok]
            /\ UNCHANGED transactions
       ELSE /\ transactions' = SetStatus(proc[p].txId, "failed",
                     transactions[proc[p].txId].digiflazz_reference)
            /\ Return(p, [proc[p] EXCEPT !.paymentSuccess = ok],
                      transactions'[proc[p].txId].status)
            /\ UNCHANGED users
    /\ UNCHANGED <<products, initialBalance, outside>>

\* 3./4. with the payment step of the code, which always succeeds.
D_UpdateBalance(p) == D_Payment(p, paymentSuccess)

\* 5. Update transaction status to 'completed' and return the row.
D_Complete(p) ==
    /\ proc[p].pc = "d_complete"
    /\ transactions' = SetStatus(proc[p].txId, "completed",
             transactions[proc[p].txId].digiflazz_reference)
    /\ Return(p, proc[p], transactions'[proc[p].txId].status)
    /\ UNCHANGED <<users, products, initialBalance, outside>>

\* ------------------------------------------------------------- processTopUp
\* Variant of FinalStatus that cancels the row on a provider failure.
FinalStatusCancelled(isApiSuccess) ==
    IF isApiSuccess THEN "completed" ELSE "cancelled"

\* let finalStatus = isApiSuccess ? 'completed' : 'failed'
FinalStatus(isApiSuccess) == IF isApiSuccess THEN "completed" ELSE "failed"

\* Variant of DebitWallet that ignores the payment method.
DebitWalletAnyMethod(method, isApiSuccess) == isApiSuccess

\* Variant of DebitWallet that ignores the provider's answer.
DebitWalletAlways(method, isApiSuccess) == method = "wallet"

\* if (input.payment_method === 'wallet' && isApiSuccess)
DebitWallet(method, isApiSuccess) == method = "wallet" /\ isApiSuccess

\* Variant of FindActiveProduct that leaves out the is_active condition.
FindProduct(i) == {j \in DOMAIN products : j = i}

\* select from service_products where id = i and is_active = true
FindActiveProduct(i) ==
    {j \in DOMAIN products : j = i /\ products[j].is_active}

\* Variant of UserMissing that validates the user for wallet payments only.
UserMissingWalletOnly(u, method) == method = "wallet" /\ u \notin DOMAIN users

\* users.length === 0, in either branch of the payment method
UserMissing(u, method) == u \notin DOMAIN users

\* Variant of InsufficientBalance that also refuses a balance equal to the
\* price.
InsufficientBalanceOrEqual(userBalance, productPrice) ==
    userBalance <= productPrice

\* Variant of InsufficientBalance with the comparison inverted.
InsufficientBalanceInverted(userBalance, productPrice) ==
    userBalance > productPrice

\* if (userBalance < productPrice)
InsufficientBalance(userBalance, productPrice) == userBalance < productPrice

\* 1. Validate that the product exists and is active.
T_SelectProduct(p) ==
    /\ MayBegin(p)
    /\ \E u \in UserIdInputs, i \in ProductIdInputs, m \in PaymentMethods :
          LET st == [IdleProc EXCEPT !.op = "processTopUp", !.user_id = u,
                                     !.product_id = i, !.payment_method = m]
              found == FindActiveProduct(i)
          IN IF found = {}
             THEN ThrowError(p, st, "Product not found or inactive")
             ELSE proc' = [proc EXCEPT ![p] =
                      [st EXCEPT !.pc = "t_select_user",
                                 !.productPrice = products[i].price]]
    /\ UNCHANGED <<users, products, transactions, initialBalance, outside>>

\* 2. Check user exists and wallet balance (if paying with wallet).
T_SelectUser(p) ==
    /\ proc[p].pc = "t_select_user"
    /\ LET u == proc[p].user_id IN
       IF UserMissing(u, proc[p].payment_method)
       THEN ThrowError(p, proc[p], "User not found")
       ELSE IF proc[p].payment_method = "wallet"
            THEN LET st == [proc[p] EXCEPT
                               !.userBalance = users[u].wallet_balance]
                 IN IF InsufficientBalance(st.userBalance, st.productPrice)
                    THEN ThrowError(p, st, "Insufficient wallet balance")
                    ELSE proc' = [proc EXCEPT ![p] =
                                     [st EXCEPT !.pc = "t_insert"]]
            ELSE proc' = [proc EXCEPT ![p].pc = "t_insert"]
    /\ UNCHANGED <<users, products, transactions, initialBalance, outside>>

\* Variant of T_InsertTransaction that reads the product's price again when
\* it builds the row.
T_InsertTransactionCurrentPrice(p) ==
    /\ proc[p].pc = "t_insert"
    /\ transactions' = Append(transactions,
          [id |-> Len(transactions) + 1, user_id |-> proc[p].user_id,
           transaction_type |-> "topup",
           amount |-> products[proc[p].product_id].price,
           status |-> "pending", payment_method |-> proc[p].payment_method,
           reference_id |-> NULL, product_id |-> proc[p].product_id,
           target_number |-> "08123456789", digiflazz_reference |-> NULL,
           created_at |-> now, updated_at |-> now])
    /\ proc' = [proc EXCEPT ![p].pc = "t_provider",
                            ![p].txId = Len(transactions) + 1]
    /\ UNCHANGED <<users, products, initialBalance, outside>>

\* 3. Create a transaction record with status 'pending'.
T_InsertTransaction(p) ==
    /\ proc[p].pc = "t_insert"
    /\ transactions' = InsertRow(
          [id |-> NullId, user_id |-> proc[p].user_id,
           transaction_type |-> "topup", amount |-> proc[p].productPrice,
           status |-> "pending", payment_method |-> proc[p].payment_method,
           reference_id |-> IF proc[p].payment_method = "payment_gateway"
                            THEN PaymentReference(now) ELSE NULL,
           product_id |-> proc[p].product_id,
           target_number |-> "08123456789", digiflazz_reference |-> NULL,
           created_at |-> NullId, updated_at |-> NullId])
    /\ proc' = [proc EXCEPT ![p].pc = "t_provider",
                            ![p].txId = Len(transactions) + 1]
    /\ UNCHANGED <<users, products, initialBalance, outside>>

\* 4. Simulated provider call: Math.random() > 0.1 succeeds or fails.
T_CallProvider(p) ==
    /\ proc[p].pc = "t_provider"
    /\ \E ok \in BOOLEAN :
          proc' = [proc EXCEPT
                      ![p].isApiSuccess = ok,
                      ![p].digiflazzReference = DigiflazzReference(now),
                      ![p].pc = IF DebitWallet(proc[p].payment_method, ok)
                                THEN "t_select_balance" ELSE "t_finalize"]
    /\ UNCHANGED <<users, products, transactions, initialBalance, outside>>

\* 5a. Fetch current balance first.
T_SelectBalance(p) ==
    /\ proc[p].pc = "t_select_balance"
    /\ proc' = [proc EXCEPT
                   ![p].currentBalance = users[proc[p].user_id].wallet_balance,
                   ![p].pc = "t_debit"]
    /\ UNCHANGED <<users, products, transactions, initialBalance, outside>>

\* Variant of T_UpdateBalance that debits the product's current price.
T_UpdateBalanceCurrentPrice(p) ==
    /\ proc[p].pc = "t_debit"
    /\ users' = UpdateBalance(proc[p].user_id,
                   proc[p].currentBalance - products[proc[p].product_id].price)
    /\ proc' = [proc EXCEPT ![p].pc = "t_finalize"]
    /\ UNCHANGED <<products, transactions, initialBalance, outside>>

\* Variant of T_UpdateBalance that adds the price to the balance.
T_UpdateBalanceCredit(p) ==
    /\ proc[p].pc = "t_debit"
    /\ users' = UpdateBalance(proc[p].user_id,
                              proc[p].currentBalance + proc[p].productPrice)
    /\ proc' = [proc EXCEPT ![p].pc = "t_finalize"]
    /\ UNCHANGED <<products, transactions, initialBalance, outside>>

\* 5b. Deduct amount from wallet.
T_UpdateBalance(p) ==
    /\ proc[p].pc = "t_debit"
    /\ users' = UpdateBalance(proc[p].user_id,
                              proc[p].currentBalance - proc[p].productPrice)
    /\ proc' = [proc EXCEPT ![p].pc = "t_finalize"]
    /\ UNCHANGED <<products, transactions, initialBalance, outside>>

\* 6. Update transaction status based on the provider response, return the row.
T_Finalize(p) ==
    /\ proc[p].pc = "t_finalize"
    /\ transactions' = SetStatus(proc[p].txId,
                                 FinalStatus(proc[p].isApiSuccess),
                                 proc[p].digiflazzReference)
    /\ Return(p, proc[p], transactions'[proc[p].txId].status)
    /\ UNCHANGED <<users, products, initialBalance, outside>>

\* ---------------------------------------------------------- specifications
\* The first statement of an invocation.
Begin(p) == D_SelectUser(p) \/ T_SelectProduct(p)

\* Every later statement of an invocation.
Continue(p) ==
    \/ D_InsertTransaction(p)
    \/ D_UpdateBalance(p)
    \/ D_Complete(p)
    \/ T_SelectUser(p)
    \/ T_InsertTransaction(p)
    \/ T_CallProvider(p)
    \/ T_SelectBalance(p)
    \/ T_UpdateBalance(p)
    \/ T_Finalize(p)

\* Invocations interleave freely, statement by statement.
Next == \E p \in Procs : Begin(p) \/ Continue(p)

Spec == Init /\ [][Next]_vars

\* Each statement of a begun invocation is eventually executed: the store and
\* the simulated provider call always answer.
FairSpec == Spec /\ \A p \in Procs : WF_vars(Continue(p))

\* An invocation begins only when no other one is in progress.
SerialNext ==
    \E p \in Procs :
        \/ (\A q \in Procs : ~InProgress(q)) /\ Begin(p)
        \/ Continue(p)

SerialInit == InitWith(TestBalance, LowBalance)

SerialSpec == SerialInit /\ [][SerialNext]_vars

\* ------------------------------------------------- requests with any amount
\* Amounts a caller may send: those of the tests, 0.004, 0 and -2500.
RequestAmounts == DepositAmounts \cup {4, 0, -(2500 * 1000)}

\* The walletDeposit procedure of the router: the input is parsed with
\* walletDepositInputSchema (amount: z.number().positive()) and only then
\* handed to the handler.
R_WalletDeposit(p) ==
    \E u \in UserIdInputs, a \in RequestAmounts :
        IF a > 0
        THEN D_Request(p, u, a)
        ELSE /\ MayBegin(p)
             /\ ThrowError(p, [IdleProc EXCEPT !.op = "walletDeposit",
                                               !.user_id = u, !.amount = a],
                           "Invalid input")
             /\ UNCHANGED <<users, products, transactions, initialBalance, outside>>

\* A direct call of the handler, as the tests make it: no schema is applied.
H_WalletDeposit(p) ==
    \E u \in UserIdInputs, a \in RequestAmounts : D_Request(p, u, a)

AmountNext ==
    \E p \in Procs :
        \/ R_WalletDeposit(p)
        \/ H_WalletDeposit(p)
        \/ T_SelectProduct(p)
        \/ Continue(p)

AmountSpec == Init /\ [][AmountNext]_vars

\* ------------------------------------------------------ failing store writes
\* A write statement issued after the insert (the users update or the
\* transactions update) is rejected by the store: the await throws, the catch
\* block logs and rethrows, and nothing is written.
StoreFailure(p) ==
    /\ proc[p].pc \in {"d_payment", "d_complete", "t_debit", "t_finalize"}
    /\ ThrowError(p, proc[p], "store write failed")
    /\ UNCHANGED <<users, products, transactions, initialBalance, outside>>

FailNext == Next \/ \E p \in Procs : StoreFailure(p)

FailSpec == Init /\ [][FailNext]_vars

\* ------------------------------------------------------ catalog maintenance
\* price '15000.00': a new price given to product 1.
RaisedPrice == 15000 * 1000

\* The catalog is maintained outside the handlers: product 1 is given another
\* price or is activated or deactivated, at any time.
EditProduct ==
    /\ \E price \in {ActivePrice, RaisedPrice}, active \in BOOLEAN :
          products' = [products EXCEPT
                          ![1] = [price |-> ToNumeric(price),
                                  is_active |-> active]]
    /\ products' # products
    /\ UNCHANGED <<users, transactions, proc, initialBalance, outside>>

CatalogNext == Next \/ EditProduct

CatalogSpec == Init /\ [][CatalogNext]_vars

\* ------------------------------------------------- payment step that may fail
\* 3./4. with a payment step that reports success or failure.
D_PaymentAny(p) == \E ok \in BOOLEAN : D_Payment(p, ok)

\* Invocations run one after another; the payment step of a deposit may
\* report either outcome.
PaymentNext ==
    \E p \in Procs :
        \/ (\A q \in Procs : ~InProgress(q)) /\ Begin(p)
        \/ D_InsertTransaction(p)
        \/ D_PaymentAny(p)
        \/ D_Complete(p)
        \/ T_SelectUser(p)
        \/ T_InsertTransaction(p)
        \/ T_CallProvider(p)
        \/ T_SelectBalance(p)
        \/ T_UpdateBalance(p)
        \/ T_Finalize(p)

PaymentSpec == SerialInit /\ [][PaymentNext]_vars

\* ------------------------------------------------------------ passing time
\* Last instant of the clock in a run.
MaxClock == 3

\* A millisecond passes, at any time, between any two statements.
Tick ==
    /\ now < MaxClock
    /\ now' = now + 1
    /\ UNCHANGED <<users, products, transactions, proc, initialBalance,
                   reader, client>>

ClockNext == Next \/ Tick

ClockSpec == Init /\ [][ClockNext]_vars

\* ------------------------------------------------------ getUserTransactions
\* ids of the rows of the transactions table.
Rows == 1..Len(transactions)

\* Variant of UserRows without the where clause.
UserRowsAll(u) == Rows

\* .where(eq(transactionsTable.user_id, input.user_id))
UserRows(u) == {i \in Rows : transactions[i].user_id = u}

RECURSIVE Orderings(_)
\* .orderBy(desc(transactionsTable.created_at)): every order of the rows S in
\* which created_at never increases; rows with the same created_at come in
\* any order, the store does not promise one.
Orderings(S) ==
    IF S = {} THEN {<< >>}
    ELSE UNION {{<<i>> \o s : s \in Orderings(S \ {i})} :
                   i \in {j \in S : \A k \in S :
                              transactions[j].created_at
                                 >= transactions[k].created_at}}

\* .limit(limit).offset(offset)
Slice(s, limit, offset) ==
    SubSeq(s, offset + 1,
           IF offset + limit < Len(s) THEN offset + limit ELSE Len(s))

DefaultLimit == 10
DefaultOffset == 0

\* const limit = input.limit ?? 10
Limit(input) ==
    IF "limit" \in DOMAIN input THEN input.limit ELSE DefaultLimit

\* const offset = input.offset ?? 0
Offset(input) ==
    IF "offset" \in DOMAIN input THEN input.offset ELSE DefaultOffset

\* The results getUserTransactions(input) may return, as sequences of rows.
GetUserTransactions(input) ==
    {[k \in DOMAIN ids |-> transactions[ids[k]]] :
        ids \in {Slice(s, Limit(input), Offset(input)) :
                    s \in Orderings(UserRows(input.user_id))}}

\* Rows of the table before the first call: two of user 1, written two hours
\* and zero hours before FixtureTime, and one of user 2 in between.
QueryFixture ==
    << [id |-> 1, user_id |-> 1, transaction_type |-> "wallet_deposit",
        amount |-> 50 * 1000, status |-> "completed",
        payment_method |-> "payment_gateway", reference_id |-> NULL,
        product_id |-> NullId, target_number |-> NULL,
        digiflazz_reference |-> NULL,
        created_at |-> FixtureTime - 2, updated_at |-> FixtureTime - 2],
       [id |-> 2, user_id |-> 2, transaction_type |-> "wallet_deposit",
        amount |-> 75 * 1000, status |-> "completed",
        payment_method |-> "payment_gateway", reference_id |-> NULL,
        product_id |-> NullId, target_number |-> NULL,
        digiflazz_reference |-> NULL,
        created_at |-> FixtureTime - 1, updated_at |-> FixtureTime - 1],
       [id |-> 3, user_id |-> 1, transaction_type |-> "wallet_withdrawal",
        amount |-> 25 * 1000, status |-> "pending",
        payment_method |-> "wallet", reference_id |-> NULL,
        product_id |-> NullId, target_number |-> NULL,
        digiflazz_reference |-> NULL,
        created_at |-> FixtureTime, updated_at |-> FixtureTime] >>

QueryInit ==
    /\ users = [u \in UserIds |->
                  [wallet_balance |-> IF u = 1 THEN TestBalance ELSE LowBalance,
                   updated_at |-> FixtureTime]]
    /\ initialBalance = [u \in UserIds |->
                           IF u = 1 THEN TestBalance ELSE LowBalance]
    /\ products = ProductsFixture
    /\ transactions = QueryFixture
    /\ proc = [p \in Procs |-> IdleProc]
    /\ now = StartTime
    /\ reader = IdleReader
    /\ client = ClientInit

\* Inputs of a call: limit and offset are optional.
QueryLimits == {1, 2}
QueryOffsets == {0, 1}

QueryInputs ==
    {[user_id |-> u] : u \in UserIdInputs}
    \cup {[user_id |-> u, limit |-> l] : u \in UserIdInputs, l \in QueryLimits}
    \cup {[user_id |-> u, offset |-> o] :
              u \in UserIdInputs, o \in QueryOffsets}
    \cup {[user_id |-> u, limit |-> l, offset |-> o] :
              u \in UserIdInputs, l \in QueryLimits, o \in QueryOffsets}

\* getUserTransactions(input): one select; the caller keeps the result.
G_Query ==
    /\ \E input \in QueryInputs : \E page \in GetUserTransactions(input) :
          reader' = [IdleReader EXCEPT !.pc = "single",
                                       !.user_id = input.user_id,
                                       !.limit = Limit(input),
                                       !.offset = Offset(input),
                                       !.page = page]
    /\ UNCHANGED <<users, products, transactions, proc, initialBalance,
                   now, client>>

\* Deposits run one after another and add rows, all within one millisecond,
\* while the transactions of a user are queried.
QueryNext ==
    \/ \E p \in Procs :
          \/ (\A q \in Procs : ~InProgress(q)) /\ D_SelectUser(p)
          \/ D_InsertTransaction(p)
          \/ D_UpdateBalance(p)
          \/ D_Complete(p)
    \/ G_Query

QuerySpec == QueryInit /\ [][QueryNext]_vars

\* ------------------------------------------------------- reading by pages
\* ids of the rows of a result.
PageIds(page) == [k \in DOMAIN page |-> page[k].id]

\* The caller has read a page: it keeps the ids, and it has finished when the
\* page is shorter than the limit.
AfterPage(r, input, page) ==
    [r EXCEPT !.pc = IF Len(page) < Limit(input) THEN "finished"
                     ELSE "scanning",
              !.user_id = input.user_id,
              !.limit = Limit(input),
              !.offset = Offset(input),
              !.page = page,
              !.seen = r.seen \o PageIds(page)]

\* getUserTransactions({user_id, limit}): the first page of a user's
\* transactions; known is what the table holds for the user at that moment.
S_FirstPage ==
    /\ reader.pc = "idle"
    /\ \E u \in UserIds, l \in QueryLimits :
          LET input == [user_id |-> u, limit |-> l] IN
          \E page \in GetUserTransactions(input) :
             reader' = AfterPage([reader EXCEPT !.known = UserRows(u)],
                                 input, page)
    /\ UNCHANGED <<users, products, transactions, proc, initialBalance,
                   now, client>>

\* getUserTransactions({user_id, limit, offset}) with the offset moved on by
\* limit: the next page.
S_NextPage ==
    /\ reader.pc = "scanning"
    /\ LET input == [user_id |-> reader.user_id, limit |-> reader.limit,
                      offset |-> reader.offset + reader.limit] IN
       \E page \in GetUserTransactions(input) :
          reader' = AfterPage(reader, input, page)
    /\ UNCHANGED <<users, products, transactions, proc, initialBalance,
                   now, client>>

\* Deposits run one after another and add rows while time passes and a
\* caller reads a user's transactions page by page.
ScanNext ==
    \/ \E p \in Procs :
          \/ (\A q \in Procs : ~InProgress(q)) /\ D_SelectUser(p)
          \/ D_InsertTransaction(p)
          \/ D_UpdateBalance(p)
          \/ D_Complete(p)
    \/ Tick
    \/ S_FirstPage
    \/ S_NextPage

ScanSpec == QueryInit /\ [][ScanNext]_vars

\* ------------------------------------------------------------------ client
\* Number of deposits and top-ups submitted in the client in a run.
MaxClientOps == 3

\* price of the mockProducts.
MockPrices == {6000 * 1000, 11500 * 1000, 6200 * 1000, 21000 * 1000}

\* Amounts entered in the deposit form: the presetAmounts, and 0.
ClientAmounts ==
    {50000 * 1000, 100000 * 1000, 200000 * 1000, 500000 * 1000, 0}

\* handleWalletUpdate(newBalance)
handleWalletUpdate(c, newBalance) == [c EXCEPT !.wallet_balance = newBalance]

\* handleTransactionComplete(newTransaction): the transaction is put in front
\* of the list and, when it is a completed top-up, its amount is taken from
\* the balance shown.
handleTransactionComplete(c, newTransaction) ==
    LET added == [c EXCEPT !.transactions =
                               <<newTransaction>> \o c.transactions]
    IN IF /\ newTransaction.transaction_type = "topup"
          /\ newTransaction.status = "completed"
       THEN handleWalletUpdate(added,
                               c.wallet_balance - newTransaction.amount)
       ELSE added

\* canProceed of TopUpSection, with a product selected and a target number
\* entered.
canProceed(c, price, method) ==
    ~(method = "wallet" /\ c.wallet_balance < price)

\* handleDeposit of WalletSection.
C_HandleDeposit ==
    /\ Len(client.transactions) < Len(MockTransactions) + MaxClientOps
    /\ \E depositAmount \in ClientAmounts :
          IF depositAmount <= 0
          THEN client' = client
          ELSE client' = handleTransactionComplete(
                   handleWalletUpdate(client,
                                      client.wallet_balance + depositAmount),
                   [transaction_type |-> "wallet_deposit",
                    amount |-> depositAmount, status |-> "completed",
                    payment_method |-> "payment_gateway"])
    /\ UNCHANGED <<users, products, transactions, proc, initialBalance,
                   now, reader>>

\* handleTopUp of TopUpSection.
C_HandleTopUp ==
    /\ Len(client.transactions) < Len(MockTransactions) + MaxClientOps
    /\ \E price \in MockPrices, method \in PaymentMethods :
          /\ canProceed(client, price, method)
          /\ client' = handleTransactionComplete(client,
                   [transaction_type |-> "topup", amount |-> price,
                    status |-> "completed", payment_method |-> method])
    /\ UNCHANGED <<users, products, transactions, proc, initialBalance,
                   now, reader>>

ClientNext == C_HandleDeposit \/ C_HandleTopUp

ClientSpec == Init /\ [][ClientNext]_vars

\* ------------------------------------------------------------------ ledger
RECURSIVE SumAmounts(_)
SumAmounts(S) ==
    IF S = {} THEN 0
    ELSE LET i == CHOOSE j \in S : TRUE
         IN transactions[i].amount + SumAmounts(S \ {i})

CompletedDeposits(u) ==
    {i \in Rows : /\ transactions[i].user_id = u
                  /\ transactions[i].transaction_type = "wallet_deposit"
                  /\ transactions[i].status = "completed"}

CompletedWalletTopUps(u) ==
    {i \in Rows : /\ transactions[i].user_id = u
                  /\ transactions[i].transaction_type = "topup"
                  /\ transactions[i].payment_method = "wallet"
                  /\ transactions[i].status = "completed"}

\* The balance the ledger accounts for.
LedgerBalance(u) ==
    initialBalance[u] + SumAmounts(CompletedDeposits(u))
                      - SumAmounts(CompletedWalletTopUps(u))

\* No invocation naming user u is between its first and its last statement.
Quiescent(u) == \A p \in Procs : InProgress(p) => proc[p].user_id # u

\* The balance write of a wallet-paid top-up has been executed.
DebitApplied(p) ==
    /\ proc[p].pc \in {"t_finalize", "done"}
    /\ DebitWallet(proc[p].payment_method, proc[p].isApiSuccess)

\* The balance write of a deposit has been executed.
CreditApplied(p) ==
    /\ proc[p].pc \in {"d_complete", "done"}
    /\ paymentSuccess

\* No invocation began after p did.
IsLatest(p) == \A q \in Procs : q > p => proc[q].pc = "idle"

\* ------------------------------------------------------------------ claims

\* C1: in every reachable state every user's wallet_balance is >= 0, under
\* any interleaving of walletDeposit and processTopUp invocations.
C1_BalanceNonNegative ==
    \A u \in UserIds : users[u].wallet_balance >= 0

\* C2: when all the invocations are wallet-paid top-ups of the same product
\* for the same user, the provider always succeeds and NumInv * price exceeds
\* the starting balance, exactly floor(balance / price) of them end completed
\* and the total debited does not exceed the starting balance.
C2_ExactlyFloorCompletions ==
    ( /\ NumInv * ActivePrice > initialBalance[1]
      /\ \A p \in Procs :
            /\ proc[p].pc = "done"
            /\ proc[p].op = "processTopUp"
            /\ proc[p].payment_method = "wallet"
            /\ proc[p].user_id = 1
            /\ proc[p].product_id = 1
            /\ proc[p].txId # NullId => proc[p].isApiSuccess )
    => /\ Cardinality({i \in Rows : transactions[i].status = "completed"})
            = initialBalance[1] \div ActivePrice
       /\ initialBalance[1] - users[1].wallet_balance <= initialBalance[1]

\* C3: whenever no invocation is in progress for a user, the user's balance
\* equals the initial balance plus the completed deposits minus the completed
\* wallet-paid top-ups.
C3_LedgerReconciled ==
    \A u \in UserIds :
        Quiescent(u) => users[u].wallet_balance = LedgerBalance(u)

\* C4: when the only invocations that ran for a user are deposits and all of
\* them completed, the balance is the old balance plus every deposited amount
\* (two concurrent deposits A and B leave old_balance + A + B).
C4_ConcurrentDepositsAdd ==
    \A u \in UserIds :
        ( \A p \in Procs :
             proc[p].pc # "idle" /\ proc[p].user_id = u =>
                /\ proc[p].op = "walletDeposit"
                /\ proc[p].result = "returned"
                /\ proc[p].resultStatus = "completed" )
        => users[u].wallet_balance
              = initialBalance[u]
                + SumAmounts({i \in Rows : transactions[i].user_id = u})

\* C5: in every state, the balance write of a wallet-paid top-up has been
\* executed if and only if its transaction row is completed.
C5_DebitIffCompleted ==
    \A p \in Procs :
        ( /\ proc[p].op = "processTopUp"
          /\ proc[p].payment_method = "wallet"
          /\ proc[p].txId # NullId )
        => (DebitApplied(p) <=> transactions[proc[p].txId].status = "completed")

\* C6: in every state, the balance write of a deposit has been executed if
\* and only if its transaction row is completed.
C6_CreditIffCompleted ==
    \A p \in Procs :
        (proc[p].op = "walletDeposit" /\ proc[p].txId # NullId)
        => (CreditApplied(p) <=> transactions[proc[p].txId].status = "completed")

\* C7: rows are inserted pending and never removed; a status changes only
\* from pending to completed or failed, and only in a step of the invocation
\* that inserted the row.
C7_StatusTransitions ==
    [][ /\ Len(transactions') >= Len(transactions)
        /\ \A i \in 1..Len(transactions') :
              IF i > Len(transactions)
              THEN transactions'[i].status = "pending"
              ELSE transactions'[i].status # transactions[i].status =>
                      /\ transactions[i].status = "pending"
                      /\ transactions'[i].status \in {"completed", "failed"}
                      /\ \E p \in Procs : /\ proc[p].txId = i
                                          /\ proc'[p] # proc[p] ]_vars

C7_Witness ==
    \E i, j \in Rows : /\ transactions[i].status = "completed"
                       /\ transactions[j].status = "failed"

\* C8: an invocation that has returned a transaction left its row completed
\* or failed (the status it returned), and every inserted row eventually is
\* completed or failed.
C8_ReturnedTerminal ==
    \A p \in Procs :
        proc[p].result = "returned" =>
            /\ transactions[proc[p].txId].status \in {"completed", "failed"}
            /\ transactions[proc[p].txId].status = proc[p].resultStatus

C9_StaleDebitFails ==
    \A p \in Procs :
        ( /\ proc[p].pc = "done"
          /\ proc[p].op = "processTopUp"
          /\ DebitWallet(proc[p].payment_method, proc[p].isApiSuccess)
          /\ proc[p].currentBalance < proc[p].productPrice )
        => transactions[proc[p].txId].status = "failed"

\* C10: a wallet-paid top-up that ran alone and passed validation returns its
\* row; on provider failure the row is failed and the balance is the one the
\* invocation found; on provider success the row is completed, its amount is
\* the product's price and the balance is lower by exactly the price
\* (100000 -> 90000 for price 10000).
C10_SingleTopUp ==
    \A p \in Procs :
        ( /\ proc[p].pc = "done"
          /\ IsLatest(p)
          /\ proc[p].op = "processTopUp"
          /\ proc[p].payment_method = "wallet"
          /\ proc[p].txId # NullId )
        => LET row == transactions[proc[p].txId]
               balance == users[proc[p].user_id].wallet_balance
           IN /\ proc[p].result = "returned"
              /\ proc[p].resultStatus = row.status
              /\ IF proc[p].isApiSuccess
                 THEN /\ row.status = "completed"
                      /\ row.amount = products[proc[p].product_id].price
                      /\ balance = proc[p].userBalance - row.amount
                      /\ p = 1 => balance = initialBalance[proc[p].user_id]
                                              - ActivePrice
                 ELSE /\ row.status = "failed"
                      /\ balance = proc[p].userBalance
                      /\ p = 1 => balance = initialBalance[proc[p].user_id]

C10_Witness ==
    /\ \A p \in {1, 2} : /\ proc[p].pc = "done"
                         /\ proc[p].op = "processTopUp"
                         /\ proc[p].payment_method = "wallet"
                         /\ proc[p].user_id = 1
                         /\ proc[p].txId = p
    /\ IsLatest(2)
    /\ ~proc[1].isApiSuccess
    /\ proc[2].isApiSuccess
    /\ transactions[2].status = "completed"
    /\ users[1].wallet_balance = 90000 * 1000

\* An invocation p that takes a step ends in that step, rejected with the
\* given error, without inserting a row or changing a balance.
RejectedBy(p, message) ==
    /\ proc'[p].pc = "done"
    /\ proc'[p].result = "error"
    /\ proc'[p].error = message
    /\ proc'[p].txId = NullId
    /\ transactions' = transactions
    /\ users' = users

\* C11: a processTopUp request naming a product that has no row or is not
\* active is rejected in its first statement, for either payment method,
\* with no row inserted and no balance changed.
C11_BadProductRejected ==
    [][ \A p \in Procs :
          ( /\ proc[p].pc = "idle"
            /\ proc'[p].op = "processTopUp"
            /\ IF proc'[p].product_id \in DOMAIN products
               THEN ~products[proc'[p].product_id].is_active
               ELSE TRUE )
          => RejectedBy(p, "Product not found or inactive") ]_vars

C11_Witness ==
    /\ proc[1].op = "processTopUp" /\ proc[1].product_id = 2
    /\ proc[1].payment_method = "wallet" /\ proc[1].result = "error"
    /\ proc[2].op = "processTopUp" /\ proc[2].product_id = 3
    /\ proc[2].payment_method = "payment_gateway" /\ proc[2].result = "error"
    /\ transactions = << >>
    /\ \A u \in UserIds : users[u].wallet_balance = initialBalance[u]

\* C12: a wallet-paid processTopUp whose user lookup finds a balance lower
\* than the product's price is rejected with the insufficient-balance error,
\* with no row inserted and the balance unchanged (5000 stays 5000 for a
\* price of 10000).
C12_InsufficientBalanceRejected ==
    [][ \A p \in Procs :
          ( /\ proc[p].pc = "t_select_user"
            /\ proc'[p] # proc[p]
            /\ proc[p].payment_method = "wallet"
            /\ proc[p].user_id \in UserIds
            /\ users[proc[p].user_id].wallet_balance
                  < products[proc[p].product_id].price )
          => RejectedBy(p, "Insufficient wallet balance") ]_vars

C12_Witness ==
    \E p \in Procs :
        /\ proc[p].op = "processTopUp" /\ proc[p].payment_method = "wallet"
        /\ proc[p].user_id = 2 /\ proc[p].product_id = 1
        /\ proc[p].error = "Insufficient wallet balance"
        /\ users[2].wallet_balance = LowBalance
        /\ \A i \in Rows : transactions[i].user_id # 2

\* C13: a processTopUp request whose user id has no row never inserts a row:
\* it is rejected, with the user-not-found error once its product lookup has
\* succeeded, for wallet and for payment_gateway alike.
C13_MissingUserRejected ==
    [][ \A p \in Procs :
          /\ ( /\ proc'[p] # proc[p]
               /\ proc'[p].op = "processTopUp"
               /\ proc'[p].user_id \notin UserIds )
             => /\ proc'[p].pc \in {"t_select_user", "done"}
                /\ proc'[p].pc = "done" => proc'[p].result = "error"
                /\ proc'[p].txId = NullId
                /\ transactions' = transactions
                /\ users' = users
          /\ ( /\ proc[p].pc = "t_select_user"
               /\ proc'[p] # proc[p]
               /\ proc[p].user_id \notin UserIds )
             => RejectedBy(p, "User not found") ]_vars

C13_Witness ==
    /\ \A p \in Procs : /\ proc[p].op = "processTopUp"
                        /\ proc[p].user_id = 3
                        /\ proc[p].error = "User not found"
    /\ proc[1].payment_method = "wallet"
    /\ proc[2].payment_method = "payment_gateway"
    /\ transactions = << >>

\* C14: a walletDeposit request whose user id has no row is rejected in its
\* first statement, with no row inserted and no balance changed.
C14_DepositMissingUserRejected ==
    [][ \A p \in Procs :
          ( /\ proc[p].pc = "idle"
            /\ proc'[p].op = "walletDeposit"
            /\ proc'[p].user_id \notin UserIds )
          => RejectedBy(p, "User with id not found") ]_vars

C14_Witness ==
    \E p \in Procs :
        /\ proc[p].op = "walletDeposit" /\ proc[p].user_id = 3
        /\ proc[p].result = "error" /\ proc[p].txId = NullId
        /\ \A i \in Rows : transactions[i].user_id # 3

\* C15: every transaction row has amount > 0, whether the deposit request
\* came through the router's walletDeposit procedure or by a direct call of
\* the handler.
C15_AmountPositive ==
    \A i \in Rows : transactions[i].amount > 0

\* The balance write of invocation p has been executed and its row has not
\* been finalized yet.
BalanceWrittenBeforeFinalization(p) ==
    \/ proc[p].pc = "d_complete"
    \/ /\ proc[p].pc = "t_finalize"
       /\ DebitWallet(proc[p].payment_method, proc[p].isApiSuccess)

\* C16: an invocation whose balance write has been executed never ends
\* leaving its row pending, also when a store write fails.
C16_NoAmbiguousEnd ==
    [][ \A p \in Procs :
          (BalanceWrittenBeforeFinalization(p) /\ proc'[p].pc = "done")
          => transactions'[proc[p].txId].status # "pending" ]_vars

\* C17 (as stated): the amount of a top-up row is the price its product has
\* at the moment the row is inserted.
C17_AmountIsPriceAtInsert ==
    [][ \A i \in 1..Len(transactions') :
          (i > Len(transactions) /\ transactions'[i].transaction_type = "topup")
          => transactions'[i].amount
                = products[transactions'[i].product_id].price ]_vars

\* C17 (amended): the amount of a top-up row is the price its product had at
\* the product lookup of the invocation that inserts the row, also when the
\* price changes between the lookup and the insertion; no later step changes
\* the amount of an existing row.
C17_AmountIsPriceAtLookup ==
    [][ /\ \A p \in Procs :
             /\ (proc[p].pc = "idle" /\ proc'[p].pc = "t_select_user")
                => proc'[p].productPrice
                      = products[proc'[p].product_id].price
             /\ (proc[p].op = "processTopUp" /\ proc[p].pc # "idle")
                => proc'[p].productPrice = proc[p].productPrice
             /\ (proc[p].pc = "t_insert" /\ proc'[p] # proc[p])
                => /\ Len(transactions') = Len(transactions) + 1
                   /\ transactions'[Len(transactions')].amount
                         = proc[p].productPrice
        /\ \A i \in Rows : transactions'[i].amount = transactions[i].amount
      ]_vars

C17_Witness ==
    \E i \in Rows :
        /\ transactions[i].transaction_type = "topup"
        /\ transactions[i].product_id = 1
        /\ transactions[i].amount = ActivePrice
        /\ transactions[i].status = "pending"
        /\ products[1].price = RaisedPrice

\* C18: once its product lookup has succeeded, a processTopUp invocation is
\* never ended by the product: whatever the product's is_active flag and
\* price are by then, its next statement can be executed, no statement after
\* the user lookup throws, the last one finalizes the row, and the debit
\* lowers the balance read by exactly the amount recorded in the row.
C18_InFlight(p) ==
    /\ proc[p].op = "processTopUp"
    /\ proc[p].pc \in {"t_insert", "t_provider", "t_select_balance",
                       "t_debit", "t_finalize"}

C18_LookupEvaluatedOnce ==
    /\ [](\A p \in Procs : InProgress(p) => ENABLED Continue(p))
    /\ [][ \A p \in Procs :
             (C18_InFlight(p) /\ proc'[p] # proc[p])
             => /\ proc'[p].result # "error"
                /\ proc[p].pc = "t_debit"
                   => users'[proc[p].user_id].wallet_balance
                         = proc[p].currentBalance
                           - transactions[proc[p].txId].amount
                /\ proc[p].pc = "t_finalize"
                   => /\ proc'[p].result = "returned"
                      /\ transactions'[proc[p].txId].status
                            \in {"completed", "failed"} ]_vars

C18_Witness ==
    \E p \in Procs :
        /\ proc[p].op = "processTopUp" /\ proc[p].payment_method = "wallet"
        /\ proc[p].result = "returned" /\ proc[p].resultStatus = "completed"
        /\ ~products[proc[p].product_id].is_active
        /\ products[proc[p].product_id].price # transactions[proc[p].txId].amount
        /\ users[proc[p].user_id].wallet_balance
              = initialBalance[proc[p].user_id]
                - transactions[proc[p].txId].amount

\* C19: with invocations run one after another, a deposit that has just
\* returned leaves the balance at the balance it found plus its amount; when
\* only deposits have run for the user, the balance is the initial balance
\* plus the sum of their amounts; every deposit has a row of its own.
C19_SerialDeposits ==
    \A p \in Procs :
        ( /\ proc[p].pc = "done"
          /\ IsLatest(p)
          /\ proc[p].op = "walletDeposit"
          /\ proc[p].result = "returned" )
        => LET u == proc[p].user_id
               row == transactions[proc[p].txId]
           IN /\ users[u].wallet_balance = proc[p].userBalance + row.amount
              /\ row.id = proc[p].txId
              /\ row.user_id = u
              /\ \A q \in Procs \ {p} : proc[q].txId # proc[p].txId
              /\ (\A q \in Procs :
                     proc[q].user_id = u =>
                        proc[q].op = "walletDeposit"
                        /\ proc[q].result = "returned")
                 => users[u].wallet_balance
                       = initialBalance[u]
                         + SumAmounts({i \in Rows : transactions[i].user_id = u})

C19_Witness ==
    /\ \A p \in {1, 2} : /\ proc[p].op = "walletDeposit"
                         /\ proc[p].user_id = 1
                         /\ proc[p].result = "returned"
                         /\ proc[p].txId = p
    /\ IsLatest(2)
    /\ proc[1].amount # proc[2].amount
    /\ users[1].wallet_balance = TestBalance + 7500 * 1000

\* C20: with invocations run one after another, a deposit that passed
\* validation returns its row; when the payment step reported success the
\* row is completed and the balance is the balance found plus the amount;
\* when it reported failure the row is failed, the balance is the balance
\* found and no error is raised; with the outcome of the code's payment step
\* the row is completed.
C20_PaymentDecides ==
    \A p \in Procs :
        ( /\ proc[p].pc = "done"
          /\ IsLatest(p)
          /\ proc[p].op = "walletDeposit"
          /\ proc[p].txId # NullId )
        => LET row == transactions[proc[p].txId]
               balance == users[proc[p].user_id].wallet_balance
           IN /\ proc[p].result = "returned"
              /\ proc[p].resultStatus = row.status
              /\ IF proc[p].paymentSuccess
                 THEN /\ row.status = "completed"
                      /\ balance = proc[p].userBalance + row.amount
                 ELSE /\ row.status = "failed"
                      /\ balance = proc[p].userBalance
              /\ proc[p].paymentSuccess = paymentSuccess
                 => row.status = "completed"

C20_Witness ==
    /\ \A p \in {1, 2} : /\ proc[p].op = "walletDeposit"
                         /\ proc[p].user_id = 1
                         /\ proc[p].result = "returned"
    /\ IsLatest(2)
    /\ proc[1].resultStatus = "failed"
    /\ proc[2].resultStatus = "completed"
    /\ users[1].wallet_balance = TestBalance + proc[2].amount

\* C21: no two transaction rows that carry a generated payment reference
\* share the same reference_id, whichever invocations inserted them and
\* whether or not the clock moved between the two insertions.
C21_ReferencesUnique ==
    \A i \in Rows : \A j \in Rows :
        ( /\ i # j
          /\ transactions[i].reference_id # NULL
          /\ transactions[j].reference_id # NULL )
        => transactions[i].reference_id # transactions[j].reference_id

\* C22: a topup row has a null digiflazz_reference exactly while it is
\* pending: once processTopUp has finalized it, completed or failed, the
\* reference is set, and the row returned to the caller carries it.  A topup
\* row has a reference_id exactly when it is paid by payment_gateway.
C22_ReferencesSet ==
    /\ \A i \in Rows :
          transactions[i].transaction_type = "topup" =>
             /\ (transactions[i].status \in {"completed", "failed"})
                   => transactions[i].digiflazz_reference # NULL
             /\ (transactions[i].digiflazz_reference = NULL)
                   <=> transactions[i].status = "pending"
             /\ (transactions[i].reference_id # NULL)
                   <=> transactions[i].payment_method = "payment_gateway"
    /\ \A p \in Procs :
          (proc[p].op = "processTopUp" /\ proc[p].result = "returned")
          => transactions[proc[p].txId].digiflazz_reference # NULL

C22_Witness ==
    /\ \E i \in Rows :
          /\ transactions[i].transaction_type = "topup"
          /\ transactions[i].status = "failed"
          /\ transactions[i].payment_method = "wallet"
          /\ transactions[i].digiflazz_reference # NULL
          /\ transactions[i].reference_id = NULL
    /\ \E i \in Rows :
          /\ transactions[i].transaction_type = "topup"
          /\ transactions[i].status = "completed"
          /\ transactions[i].payment_method = "payment_gateway"
          /\ transactions[i].digiflazz_reference # NULL
          /\ transactions[i].reference_id # NULL

\* C23: every row of a result of getUserTransactions belongs to the user
\* asked for and is a row of the table, the result has at most limit rows,
\* and created_at never increases along the result.
C23_OwnRowsNewestFirst ==
    reader.pc # "idle" =>
       /\ Len(reader.page) <= reader.limit
       /\ \A k \in DOMAIN reader.page :
             /\ reader.page[k].user_id = reader.user_id
             /\ reader.page[k].id \in Rows
             /\ transactions[reader.page[k].id].user_id = reader.user_id
       /\ \A k \in DOMAIN reader.page : \A l \in DOMAIN reader.page :
             k < l => reader.page[k].created_at >= reader.page[l].created_at

C23_Witness ==
    /\ reader.pc = "single"
    /\ Len(reader.page) = 2
    /\ reader.page[1].created_at > reader.page[2].created_at
    /\ reader.page[1].reference_id # NULL
    /\ \E i \in Rows :
          /\ transactions[i].user_id # reader.user_id
          /\ transactions[i].created_at > reader.page[2].created_at
          /\ transactions[i].created_at <= reader.page[1].created_at

\* C24: a caller that reads a user's transactions in pages of size L at
\* offsets 0, L, 2L, ... until a page is short has, when it finishes, read
\* no transaction twice and every transaction the user had when it started,
\* also when rows were inserted between two page reads.  Stated here for
\* the case in which the user's rows all differ in created_at.
C24_PagesCoverOnce ==
    ( /\ reader.pc = "finished"
      /\ \A i \in UserRows(reader.user_id) :
            \A j \in UserRows(reader.user_id) :
               i # j => transactions[i].created_at
                           # transactions[j].created_at )
    => /\ \A k \in DOMAIN reader.seen : \A l \in DOMAIN reader.seen :
             k # l => reader.seen[k] # reader.seen[l]
       /\ \A i \in reader.known :
             \E k \in DOMAIN reader.seen : reader.seen[k] = i

\* C25: a statement of an invocation for user A leaves the users row of
\* every other user and every transaction row of every other user as they
\* are; and an invocation that is the only one naming its user ends, however
\* it was interleaved with the invocations of other users, with the outcome
\* it has when run alone: a completed deposit leaves the initial balance plus
\* the amount, a top-up has the status the provider's answer gives and leaves
\* the initial balance minus the price when it debited the wallet, and a
\* rejected request leaves the initial balance.
C25_AloneWith(p) ==
    \A q \in Procs \ {p} :
        proc[q].pc = "idle" \/ proc[q].user_id # proc[p].user_id

C25_UsersIndependent ==
    /\ [][ \A p \in Procs :
             proc'[p] # proc[p] =>
                /\ \A v \in UserIds :
                      v # proc'[p].user_id => users'[v] = users[v]
                /\ Len(transactions') >= Len(transactions)
                /\ \A i \in Rows :
                      transactions[i].user_id # proc'[p].user_id
                         => transactions'[i] = transactions[i]
                /\ \A i \in 1..Len(transactions') :
                      i > Len(transactions)
                         => transactions'[i].user_id = proc'[p].user_id
          ]_vars
    /\ [](\A p \in Procs :
            ( /\ proc[p].pc = "done"
              /\ proc[p].user_id \in UserIds
              /\ C25_AloneWith(p) )
            => LET u == proc[p].user_id IN
               /\ proc[p].result = "error"
                     => users[u].wallet_balance = initialBalance[u]
               /\ (proc[p].result = "returned" /\ proc[p].op = "walletDeposit")
                     => /\ proc[p].resultStatus = "completed"
                        /\ transactions[proc[p].txId].status = "completed"
                        /\ users[u].wallet_balance
                              = initialBalance[u] + proc[p].amount
               /\ (proc[p].result = "returned" /\ proc[p].op = "processTopUp")
                     => /\ proc[p].resultStatus
                              = FinalStatus(proc[p].isApiSuccess)
                        /\ transactions[proc[p].txId].status
                              = proc[p].resultStatus
                        /\ users[u].wallet_balance
                              = IF DebitWallet(proc[p].payment_method,
                                               proc[p].isApiSuccess)
                                THEN initialBalance[u] - proc[p].productPrice
                                ELSE initialBalance[u])

\* Two invocations for different users are in progress at once and each has
\* written its user's balance.
C25_Witness ==
    \E p \in Procs : \E q \in Procs :
        /\ proc[p].op = "processTopUp" /\ proc[p].pc = "t_finalize"
        /\ DebitApplied(p)
        /\ proc[q].op = "walletDeposit" /\ proc[q].pc = "d_complete"
        /\ proc[p].user_id # proc[q].user_id
        /\ users[proc[p].user_id].wallet_balance
              # initialBalance[proc[p].user_id]
        /\ users[proc[q].user_id].wallet_balance
              # initialBalance[proc[q].user_id]

\* C26: the balance check of a wallet-paid processTopUp rejects the request
\* exactly when the balance it reads is lower than the price, so a balance
\* equal to the price goes on to the insert; and when such an invocation is
\* the only one naming its user, the balance it started from equals the
\* price and the provider succeeds, the transaction ends completed and the
\* balance is exactly 0.
C26_EqualBalanceAccepted ==
    /\ [][ \A p \in Procs :
             ( /\ proc[p].pc = "t_select_user"
               /\ proc[p].payment_method = "wallet"
               /\ proc[p].user_id \in UserIds
               /\ proc'[p] # proc[p] )
             => IF users[proc[p].user_id].wallet_balance
                     < proc[p].productPrice
                THEN /\ proc'[p].result = "error"
                     /\ proc'[p].error = "Insufficient wallet balance"
                ELSE /\ proc'[p].pc = "t_insert"
                     /\ proc'[p].result = "none" ]_vars
    /\ [](\A p \in Procs :
            ( /\ proc[p].pc = "done"
              /\ proc[p].op = "processTopUp"
              /\ proc[p].payment_method = "wallet"
              /\ proc[p].result = "returned"
              /\ proc[p].isApiSuccess
              /\ initialBalance[proc[p].user_id] = proc[p].productPrice
              /\ \A q \in Procs \ {p} :
                    proc[q].pc = "idle" \/ proc[q].user_id # proc[p].user_id )
            => /\ proc[p].resultStatus = "completed"
               /\ transactions[proc[p].txId].status = "completed"
               /\ users[proc[p].user_id].wallet_balance = 0)

C26_Witness ==
    \E p \in Procs :
        /\ proc[p].pc = "done"
        /\ proc[p].op = "processTopUp"
        /\ proc[p].payment_method = "wallet"
        /\ proc[p].resultStatus = "completed"
        /\ proc[p].userBalance = proc[p].productPrice
        /\ initialBalance[proc[p].user_id] = proc[p].productPrice
        /\ users[proc[p].user_id].wallet_balance = 0
        /\ \A q \in Procs \ {p} : proc[q].user_id # proc[p].user_id

\* C27: no statement of a processTopUp invocation paid by payment_gateway
\* writes the users table; its user lookup lets an existing user pass
\* whatever the balance is; and when it is the only invocation naming its
\* user, the user's wallet_balance and updated_at are after it, completed or
\* failed, what they were before it.
C27_GatewayLeavesUser ==
    /\ [][ \A p \in Procs :
             ( /\ proc'[p] # proc[p]
               /\ proc'[p].op = "processTopUp"
               /\ proc'[p].payment_method = "payment_gateway" )
             => /\ users' = users
                /\ ( proc[p].pc = "t_select_user"
                      /\ proc[p].user_id \in UserIds )
                   => /\ proc'[p].pc = "t_insert"
                      /\ proc'[p].result = "none" ]_vars
    /\ [](\A p \in Procs :
            ( /\ proc[p].pc = "done"
              /\ proc[p].op = "processTopUp"
              /\ proc[p].payment_method = "payment_gateway"
              /\ proc[p].user_id \in UserIds
              /\ \A q \in Procs \ {p} :
                    proc[q].pc = "idle" \/ proc[q].user_id # proc[p].user_id )
            => /\ users[proc[p].user_id].wallet_balance
                     = initialBalance[proc[p].user_id]
               /\ users[proc[p].user_id].updated_at = FixtureTime)

C27_Witness ==
    \E p \in Procs : \E q \in Procs :
        /\ proc[p].op = "processTopUp" /\ proc[q].op = "processTopUp"
        /\ proc[p].payment_method = "payment_gateway"
        /\ proc[q].payment_method = "payment_gateway"
        /\ proc[p].resultStatus = "completed"
        /\ proc[q].resultStatus = "failed"
        /\ proc[p].user_id # proc[q].user_id
        /\ users[proc[p].user_id].wallet_balance < proc[p].productPrice
        /\ users[proc[p].user_id].updated_at = FixtureTime
        /\ users[proc[q].user_id].wallet_balance
              = initialBalance[proc[q].user_id]

\* C28: when the invocations run one after another and every store write
\* succeeds, then in every state in which no invocation is in progress each
\* user's balance is >= 0 and equals the initial balance plus the completed
\* deposits minus the completed wallet-paid top-ups.
C28_SerialLedger ==
    (\A p \in Procs : ~InProgress(p))
    => \A u \in UserIds :
          /\ users[u].wallet_balance >= 0
          /\ users[u].wallet_balance
                = initialBalance[u]
                  + SumAmounts(CompletedDeposits(u))
                  - SumAmounts(CompletedWalletTopUps(u))

\* A deposit and then a wallet-paid top-up of the same user have completed,
\* and the top-up has taken the whole balance.
C28_Witness ==
    /\ \A p \in Procs : ~InProgress(p)
    /\ \E u \in UserIds :
          /\ CompletedDeposits(u) # {}
          /\ CompletedWalletTopUps(u) # {}
          /\ users[u].wallet_balance = 0

\* C29: the transactions table only grows, by one row at a time, inserted by
\* an invocation that had no row yet; an existing row is changed only by the
\* invocation that inserted it, and only in status, digiflazz_reference and
\* updated_at.  An invocation that has returned has exactly one row, which
\* no other invocation has; a rejected invocation has none; and the table
\* holds exactly the rows of the invocations that have inserted one.
C29_Immutable(old, new) ==
    /\ new.id = old.id
    /\ new.user_id = old.user_id
    /\ new.transaction_type = old.transaction_type
    /\ new.amount = old.amount
    /\ new.payment_method = old.payment_method
    /\ new.product_id = old.product_id
    /\ new.target_number = old.target_number
    /\ new.reference_id = old.reference_id
    /\ new.created_at = old.created_at

C29_AppendOnly ==
    /\ [][ /\ Len(transactions') \in {Len(transactions), Len(transactions) + 1}
           /\ \A i \in Rows :
                 /\ C29_Immutable(transactions[i], transactions'[i])
                 /\ transactions'[i] # transactions[i]
                       => \E p \in Procs : /\ proc'[p] # proc[p]
                                           /\ proc[p].txId = i
           /\ Len(transactions') = Len(transactions) + 1
                 => \E p \in Procs :
                       /\ proc'[p] # proc[p]
                       /\ proc[p].pc \in {"d_insert", "t_insert"}
                       /\ proc[p].txId = NullId
                       /\ proc'[p].txId = Len(transactions')
                       /\ transactions'[Len(transactions')].user_id
                             = proc[p].user_id
         ]_vars
    /\ [](\A p \in Procs :
            /\ proc[p].result = "returned"
                  => /\ proc[p].txId \in Rows
                     /\ \A q \in Procs \ {p} : proc[q].txId # proc[p].txId
            /\ proc[p].result = "error" => proc[p].txId = NullId)
    /\ [](Len(transactions)
            = Cardinality({p \in Procs : proc[p].txId # NullId}))

C29_Witness ==
    /\ Len(transactions) = 1
    /\ transactions[1].status = "completed"
    /\ transactions[1].digiflazz_reference # NULL
    /\ \E p \in Procs : proc[p].result = "returned" /\ proc[p].txId = 1
    /\ \E p \in Procs : /\ proc[p].result = "error"
                         /\ proc[p].error = "Insufficient wallet balance"
    /\ \A p \in Procs : proc[p].pc = "done"

\* C30: in the client the balance shown is never negative, a step lowers it
\* only when it adds a completed top-up paid from the wallet, and a step that
\* adds a completed top-up paid with payment_gateway leaves it as it is.
C30_ShownBalance ==
    /\ [](client.wallet_balance >= 0)
    /\ [][ Len(client'.transactions) > Len(client.transactions) =>
             LET t == client'.transactions[1] IN
             /\ client'.wallet_balance < client.wallet_balance
                   => /\ t.transaction_type = "topup"
                      /\ t.status = "completed"
                      /\ t.payment_method = "wallet"
             /\ ( t.transaction_type = "topup"
                   /\ t.payment_method = "payment_gateway" )
                   => client'.wallet_balance = client.wallet_balance
         ]_vars

====
